---- MODULE Spec2Model ----
(***************************************************************************)
(* Model of xbbg/blp.py: the cached reference lookup (bdp), the cached     *)
(* block lookup (bds), the intraday bar lookup (bdib), the futures roll    *)
(* resolver (fut_ticker) and the active contract selector                  *)
(* (active_futures).                                                       *)
(*                                                                         *)
(* A data frame is a sequence of rows; a cache file holds one data frame.  *)
(* The cache directory is the function `files` from the paths that exist   *)
(* to their content.  The terminal is a deterministic function of the      *)
(* variable `term`, which only the environment changes.                    *)
(***************************************************************************)
EXTENDS Integers, Sequences, FiniteSets, TLC

VARIABLES
    files,      \* reference / block cache: path -> data frame (DOMAIN = files that exist)
    hist,       \* intraday cache: <<ticker, dt, typ>> -> bar data (DOMAIN = files that exist)
    missing,    \* miss counter: <<ticker, dt, typ>> -> number of empty fetches logged
    term,       \* state of the external terminal
    call        \* what the last call did (arguments, fetch, writes, result)

vars == <<files, hist, missing, term, call>>

-----------------------------------------------------------------------------
(* Bounds of the model *)

MaxVer == 2          \* the terminal's reference values are drawn from 1..MaxVer
MaxArgs == 2         \* a call names at most MaxArgs tickers and MaxArgs fields
DaysPerMonth == 3    \* days of a month of the model's calendar
MatDay == 1          \* a contract's last tradeable day within its expiry month
MaxMonth == 11       \* dated contracts exist for months 0..MaxMonth
MaxVol == 2          \* the volume of a day's bars is drawn from 0..MaxVol (0: no bars)

\* pd.Timestamp('today'): the day the calls are made on
Today == 2 * DaysPerMonth + MatDay + 2

-----------------------------------------------------------------------------
(* Sequence helpers (pandas / python list operations) *)

Range(s) == {s[i] : i \in 1..Len(s)}

\* the non-empty subsequences of seq of length at most n, in the order of seq
RECURSIVE KeepIdx(_, _, _)
SubSeqs(seq, n) ==
    {KeepIdx(seq, I, 1) : I \in {J \in SUBSET (1..Len(seq)) : J # {} /\ Cardinality(J) <= n}}

\* the elements of s at the positions in I, in order
KeepIdx(s, I, k) ==
    IF k > Len(s) THEN <<>>
    ELSE (IF k \in I THEN <<s[k]>> ELSE <<>>) \o KeepIdx(s, I, k + 1)

\* pd.concat of a list of frames
RECURSIVE concat(_)
concat(frames) ==
    IF frames = <<>> THEN <<>> ELSE Head(frames) \o concat(Tail(frames))

\* itertools.product(tickers, flds): ticker-major
product(tickers, flds) ==
    [k \in 1..(Len(tickers) * Len(flds)) |->
        <<tickers[((k - 1) \div Len(flds)) + 1], flds[((k - 1) % Len(flds)) + 1]>>]

-----------------------------------------------------------------------------
(* Cache store: assist._ref_file_, files.exists, read/write.               *)

NoDate == -1

NoPath == [ticker |-> "", fld |-> "", asof |-> NoDate, ext |-> ""]

\* The path of a reference cell: a function of (ticker, field,
\* date-if-required, extension).  from_cache is no component of the path.
_ref_file_(ticker, fld, has_date, from_cache, ext) ==
    [ticker |-> ticker, fld |-> fld,
     asof |-> IF has_date THEN Today ELSE NoDate, ext |-> ext]

exists(fs, data_file) == data_file \in DOMAIN fs

\* DataFrame.to_parquet / to_pickle: the file is replaced wholesale
to_file_append(fs, data_file, frame) ==
    [p \in DOMAIN fs \cup {data_file} |->
        IF p = data_file
        THEN (IF p \in DOMAIN fs THEN fs[p] ELSE <<>>) \o frame
        ELSE fs[p]]

to_file(fs, data_file, frame) ==
    [p \in DOMAIN fs \cup {data_file} |-> IF p = data_file THEN frame ELSE fs[p]]

-----------------------------------------------------------------------------
(* Calendar.  A date is a day number; months have DaysPerMonth days and    *)
(* month number a is calendar month (a % 12) + 1 of year BaseYear + a \div 12. *)

BaseYear == 2024
MonthOf(d) == d \div DaysPerMonth                 \* pd.Timestamp(d).month (with the year)
YearOf(month) == BaseYear + (month \div 12)

\* A string of the program is the sequence of its Unicode code points:
\* 'ES1' is <<69, 83, 49>>, a blank is 32, a tab is 9.

\* const.Futures: the month-code letter of each calendar month
Futures == <<70, 71, 72, 74, 75, 77, 78, 81, 85, 86, 88, 90>>    \* 'FGHJKMNQUVXZ'
Digits == <<48, 49, 50, 51, 52, 53, 54, 55, 56, 57>>    \* '0123456789'

\* The code points int() reads as the digit 0: each starts a run of ten
\* decimal digits (Unicode category Nd as of Unicode 14.0, which Python
\* 3.11 carries; ASCII '0' is 48).
DecimalZeros ==
    {48, 1632, 1776, 1984, 2406, 2534, 2662, 2790, 2918, 3046, 3174, 3302, 3430,
     3558, 3664, 3792, 3872, 4160, 4240, 6112, 6160, 6470, 6608, 6784, 6800,
     6992, 7088, 7232, 7248, 42528, 43216, 43264, 43472, 43504, 43600, 44016,
     65296, 66720, 68912, 69734, 69872, 69942, 70096, 70384, 70736, 70864,
     71248, 71360, 71472, 71904, 72016, 72784, 73040, 73120, 92768, 92864,
     93008, 120782, 120792, 120802, 120812, 120822, 123200, 123632, 125264,
     130032}

\* int(c) of one character: it raises ValueError unless the character is a
\* decimal digit, and gives the digit's value otherwise
DecimalDigits == UNION {z..(z + 9) : z \in DecimalZeros}
IsDigit(c) == c \in DecimalDigits
int(c) == c - (CHOOSE z \in DecimalZeros : z <= c /\ c <= z + 9)

\* s[-1] of a string that is not empty, and s[:-1] (empty for the empty string)
last_char(s) == s[Len(s)]
but_last(s) == SubSeq(s, 1, Len(s) - 1)

\* The characters str.split() separates words at: those str.isspace() holds of
Whitespace ==
    (9..13) \cup (28..32) \cup {133, 160, 5760} \cup (8192..8202)
        \cup {8232, 8233, 8239, 8287, 12288}

\* str.split(): the words of a string, which runs of whitespace separate
RECURSIVE split_from(_, _, _, _)
split_from(s, i, word, words) ==
    IF i > Len(s)
    THEN IF word = <<>> THEN words ELSE Append(words, word)
    ELSE IF s[i] \in Whitespace
    THEN split_from(s, i + 1, <<>>, IF word = <<>> THEN words ELSE Append(words, word))
    ELSE split_from(s, i + 1, Append(word, s[i]), words)

\* The tickers the callers pass: generic tickers of futures roots (the
\* second generic is also the ticker active_futures builds for its root),
ES1 == <<69, 83, 49, 32, 73, 110, 100, 101, 120>>    \* 'ES1 Index'
ES2 == <<69, 83, 50, 32, 73, 110, 100, 101, 120>>    \* 'ES2 Index'
CL1 == <<67, 76, 49, 32, 67, 111, 109, 100, 116, 121>>    \* 'CL1 Comdty'

\* the form of the root the docstring of active_futures names: no digit,
ESA == <<69, 83, 65, 32, 73, 110, 100, 101, 120>>    \* 'ESA Index'

\* an equity, which needs no contract resolution,
AAA == <<65, 65, 65, 32, 85, 83, 32, 69, 113, 117, 105, 116, 121>>    \* 'AAA US Equity'

\* a currency
AUD == <<65, 85, 68, 32, 67, 117, 114, 110, 99, 121>>    \* 'AUD Curncy'

\* the second generic of a root written with the Arabic-Indic digit two and
\* a tab before the asset class
ES2Tab == <<69, 83, 1634, 9, 73, 110, 100, 101, 120>>    \* 'ES\u0662\tIndex'

\* a generic ticker whose market info has no roll frequency, a ticker of
\* an asset class bdib does not know,
XX1 == <<88, 88, 49, 32, 73, 110, 100, 101, 120>>    \* 'XX1 Index'
Corp == <<65, 65, 65, 32, 85, 83, 32, 67, 111, 114, 112>>    \* 'AAA US Corp'

\* a generic ticker of a root that has spreads,
UX1 == <<85, 88, 49, 32, 73, 110, 100, 101, 120>>    \* 'UX1 Index'

\* and a ticker without a word
Blank == <<32>>    \* ' '

\* the words of these tickers, split once
Words ==
    [s \in {ES1, ES2, CL1, ESA, AAA, AUD, ES2Tab, XX1, Corp, UX1, Blank} |-> split_from(s, 1, <<>>, <<>>)]

split(s) == IF s \in DOMAIN Words THEN Words[s] ELSE split_from(s, 1, <<>>, <<>>)

\* ' '.join(words)
RECURSIVE join(_)
join(words) ==
    IF words = <<>> THEN <<>>
    ELSE IF Len(words) = 1 THEN words[1]
    ELSE words[1] \o <<32>> \o join(Tail(words))

\* xs[-1] of a list that is not empty
last_of(xs) == xs[Len(xs)]

\* the asset classes, as the code spells them
Index == <<73, 110, 100, 101, 120>>    \* 'Index'
Curncy == <<67, 117, 114, 110, 99, 121>>    \* 'Curncy'
Comdty == <<67, 111, 109, 100, 116, 121>>    \* 'Comdty'
Equity == <<69, 113, 117, 105, 116, 121>>    \* 'Equity'

\* to_fut: prefix + month code + last digit of the two-digit year + ' ' + postfix
to_fut(prefix, postfix, month) ==
    prefix \o <<Futures[(month % 12) + 1], Digits[(YearOf(month) % 10) + 1], 32>>
        \o postfix

\* months between period ends of a pandas frequency: 'M' month end, 'Q' quarter end
FreqStep(freq) == IF freq = "Q" THEN 3 ELSE 1

\* pd.DatetimeIndex(start=dt, periods=n, freq=freq): the n period ends on or after dt
months(dt, periods, freq) ==
    LET step == FreqStep(freq)
        first == CHOOSE a \in MonthOf(dt)..(MonthOf(dt) + step - 1) : (a + 1) % step = 0
    IN  [k \in 1..periods |-> first + (k - 1) * step]

-----------------------------------------------------------------------------
(* The external terminal (con.ref, con.bulkref): a function of `term`.     *)
(*   term.ver    the value it reports for an ordinary reference cell       *)
(*   term.norow  the cells it returns no row for                           *)
(*   term.bad    the tickers a request must not name: it raises if it does *)
(*   term.vol    the volume of the bars it has for a ticker (0: no bars)   *)

\* the day of the model's calendar on which the clocks of the time zones
\* that observe summer time change: the day before yesterday
ChangeDay == Today - 2

\* time zones of the tz database: the UTC offset in hours that holds until
\* the clocks change, and the change at 02:00 local time of ChangeDay
\* (1: forward to 03:00, -1: back to 01:00, 0: the zone has no summer time)
Chicago == [utc |-> 0 - 6, change |-> 1]
NewYork == [utc |-> 0 - 4, change |-> 0 - 1]
Sydney == [utc |-> 10, change |-> 1]
Tokyo == [utc |-> 9, change |-> 0]

\* const.market_info: the futures roots that are configured, with the roll
\* frequency ("": the entry has no 'freq'), the time zone of the exchange,
\* the hours its all-day session starts and ends at, whether it has
\* 'has_sprd' set and its 'tickers' list (<<>>: the entry has none)
FutRoots ==
    {[prefix |-> <<69, 83>>, asset |-> Index, freq |-> "Q", tz |-> Chicago,
      start_time |-> 17, end_time |-> 16, has_sprd |-> FALSE, tickers |-> <<>>],
     [prefix |-> <<67, 76>>, asset |-> Comdty, freq |-> "M", tz |-> NewYork,
      start_time |-> 18, end_time |-> 17, has_sprd |-> FALSE, tickers |-> <<>>],
     [prefix |-> <<88, 88>>, asset |-> Index, freq |-> "", tz |-> Tokyo,
      start_time |-> 9, end_time |-> 15, has_sprd |-> FALSE, tickers |-> <<>>],
     [prefix |-> <<85, 88>>, asset |-> Index, freq |-> "M", tz |-> NewYork,
      start_time |-> 17, end_time |-> 0, has_sprd |-> TRUE, tickers |-> <<1, 2, 3>>]}

\* the session of an equity's exchange, and the session of a currency
EquityHours == [tz |-> Tokyo, start_time |-> 9, end_time |-> 15]
CurncyHours == [tz |-> Sydney, start_time |-> 2, end_time |-> 17]
MaturityFlds == {"last_tradeable_dt", "Last_Tradeable_Dt"}

\* the dated contracts the terminal knows, each with its expiry month
FutSymbols ==
    {<<to_fut(r.prefix, r.asset, a), a>> : r \in FutRoots, a \in 0..MaxMonth}

\* the expiry month of a dated contract symbol (-1: no such contract)
ContractMonth(ticker) ==
    IF \E p \in FutSymbols : p[1] = ticker
    THEN (CHOOSE p \in FutSymbols : p[1] = ticker)[2]
    ELSE -1

TermValue(tm, ticker, fld) ==
    IF fld \in MaturityFlds /\ ContractMonth(ticker) >= 0
    THEN ContractMonth(ticker) * DaysPerMonth + MatDay
    ELSE tm.ver

\* con.ref(tickers, flds): one row per requested cell the terminal knows,
\* ticker-major in request order; raises on a ticker it rejects
con_ref(tm, tickers, flds) ==
    LET cells == product(tickers, flds)
        got == {k \in 1..Len(cells) : cells[k] \notin tm.norow}
        rows == [k \in 1..Len(cells) |->
                    [ticker |-> cells[k][1], field |-> cells[k][2],
                     value |-> TermValue(tm, cells[k][1], cells[k][2])]]
    IN  [raised |-> \E i \in 1..Len(tickers) : tickers[i] \in tm.bad \/ Len(tickers[i]) = 0,
         rows |-> KeepIdx(rows, got, 1)]

-----------------------------------------------------------------------------
(* Query reconciler: bdp(cache=True)                                       *)

\* loaded.where(loaded == 0).dropna(how='all', axis=1).dropna(how='all', axis=0):
\* the rows and the columns of the grid that hold at least one outstanding cell
to_qry(tickers, flds, hits) ==
    [index |-> KeepIdx(tickers,
                  {i \in 1..Len(tickers) :
                      \E j \in 1..Len(flds) : <<tickers[i], flds[j]>> \notin hits}, 1),
     columns |-> KeepIdx(flds,
                  {j \in 1..Len(flds) :
                      \E i \in 1..Len(tickers) : <<tickers[i], flds[j]>> \notin hits}, 1)]

\* lines 51-57: the frames read from the cache, in product order
RECURSIVE read_cached(_, _, _, _, _, _)
read_cached(fs, cells, k, has_date, from_cache, ext) ==
    IF k > Len(cells) THEN <<>>
    ELSE LET data_file == _ref_file_(cells[k][1], cells[k][2], has_date, from_cache, ext)
         IN  (IF exists(fs, data_file) THEN fs[data_file] ELSE <<>>)
                \o read_cached(fs, cells, k + 1, has_date, from_cache, ext)

\* as persist_rows, but only the first returned row is written
persist_rows_first(st, ref_data, r) ==
    IF ref_data = <<>> THEN st
    ELSE LET snap == ref_data[1]
             data_file == _ref_file_(snap.ticker, snap.field, FALSE, FALSE, "parq")
         IN  [files |-> to_file(st.files, data_file, <<snap>>),
              written |-> st.written \cup {data_file}]

\* lines 69-74: each returned row is written to the path of its own cell
\* (has_date and from_cache are not passed: the defaults apply)
RECURSIVE persist_rows(_, _, _)
persist_rows(st, ref_data, r) ==
    IF r > Len(ref_data) THEN st
    ELSE LET snap == ref_data[r]
             data_file == _ref_file_(snap.ticker, snap.field, FALSE, FALSE, "parq")
         IN  persist_rows(
                 IF data_file # NoPath
                 THEN [files |-> to_file(st.files, data_file, <<snap>>),
                       written |-> st.written \cup {data_file}]
                 ELSE st,
                 ref_data, r + 1)

\* reset_index(drop=True).drop_duplicates(subset=['ticker','field'], keep=...):
\* rows are labelled 0.. before duplicates are dropped, and keep their label
labelled(rows) ==
    [i \in 1..Len(rows) |->
        [ticker |-> rows[i].ticker, field |-> rows[i].field,
         value |-> rows[i].value, label |-> i - 1]]

drop_duplicates_first(rows) ==
    KeepIdx(labelled(rows),
            {i \in 1..Len(rows) :
                \A j \in 1..(i - 1) :
                    <<rows[j].ticker, rows[j].field>> # <<rows[i].ticker, rows[i].field>>}, 1)

drop_duplicates_none(rows) == labelled(rows)

drop_duplicates(rows) ==
    KeepIdx(labelled(rows),
            {i \in 1..Len(rows) :
                \A j \in (i + 1)..Len(rows) :
                    <<rows[j].ticker, rows[j].field>> # <<rows[i].ticker, rows[i].field>>}, 1)

\* lines 77-80: the result of the call, with what the call did on the way
bdp_result(hits, cached_data, qry, fetch, ref_data, saved) ==
    [raised |-> FALSE, files |-> saved.files, hits |-> hits, cached_data |-> cached_data,
     ref_tcks |-> IF fetch THEN qry.index ELSE <<>>,
     ref_flds |-> IF fetch THEN qry.columns ELSE <<>>,
     ncalls |-> IF fetch THEN 1 ELSE 0,
     ref_data |-> ref_data, written |-> saved.written,
     result |-> drop_duplicates(cached_data \o ref_data)]

\* lines 67-75: the terminal raised, or its rows are persisted one by one
bdp_fetched(fs, hits, cached_data, qry, fetch, ref) ==
    IF ref.raised
    THEN [raised |-> TRUE, files |-> fs, hits |-> hits, cached_data |-> cached_data,
          ref_tcks |-> qry.index, ref_flds |-> qry.columns, ncalls |-> 1,
          ref_data |-> <<>>, written |-> {}, result |-> <<>>]
    ELSE bdp_result(hits, cached_data, qry, fetch, ref.rows,
                    persist_rows([files |-> fs, written |-> {}], ref.rows, 1))

\* lines 59-67: one fetch for the rows and columns of to_qry, if it is not empty
bdp_query(fs, tm, hits, cached_data, qry) ==
    IF qry.index # <<>> /\ qry.columns # <<>>
    THEN bdp_fetched(fs, hits, cached_data, qry, TRUE,
                     con_ref(tm, qry.index, qry.columns))
    ELSE bdp_fetched(fs, hits, cached_data, qry, FALSE,
                     [raised |-> FALSE, rows |-> <<>>])

\* lines 50-57: the cells whose cache file exists
cache_hits(fs, tickers, flds, has_date, from_cache, ext) ==
    {c \in Range(product(tickers, flds)) :
        exists(fs, _ref_file_(c[1], c[2], has_date, from_cache, ext))}

bdp_loaded(fs, tm, tickers, flds, hits, cached_data) ==
    bdp_query(fs, tm, hits, cached_data, to_qry(tickers, flds, hits))

\* bdp(tickers, flds, cache=True, has_date=.., from_cache=..) on cache fs and
\* terminal tm: the new cache, the result and what the call did on the way
bdp(fs, tm, tickers, flds, has_date, from_cache) ==
    bdp_loaded(fs, tm, tickers, flds,
               cache_hits(fs, tickers, flds, has_date, from_cache, "parq"),
               read_cached(fs, product(tickers, flds), 1, has_date, from_cache, "parq"))

-----------------------------------------------------------------------------
(* Query reconciler: bds(cached=True)                                      *)

BlockRows == 2       \* rows of one block (one-to-many rows per cell)

\* con.bulkref(tickers, flds): BlockRows rows per requested cell the terminal knows
RECURSIVE bulk_rows(_, _, _)
bulk_rows(tm, cells, k) ==
    IF k > Len(cells) THEN <<>>
    ELSE (IF cells[k] \in tm.norow THEN <<>>
          ELSE [n \in 1..BlockRows |->
                   [ticker |-> cells[k][1], field |-> cells[k][2],
                    name |-> n, value |-> TermValue(tm, cells[k][1], cells[k][2])]])
            \o bulk_rows(tm, cells, k + 1)

con_bulkref(tm, tickers, flds) ==
    [raised |-> \E i \in 1..Len(tickers) : tickers[i] \in tm.bad,
     rows |-> bulk_rows(tm, product(tickers, flds), 1)]

\* the order pandas sorts group keys in (plain string order)
SortOrder == <<"AAA US Equity", "BBB US Equity", "Crncy", "DVD_Hist_All">>
Rank(name) == CHOOSE i \in 1..Len(SortOrder) : SortOrder[i] = name

\* data.groupby(['ticker', 'field']): the keys present, sorted
RECURSIVE sorted_keys(_)
sorted_keys(keys) ==
    IF keys = {} THEN <<>>
    ELSE LET least == CHOOSE c \in keys : \A d \in keys :
                          \/ Rank(c[1]) < Rank(d[1])
                          \/ (c[1] = d[1] /\ Rank(c[2]) <= Rank(d[2]))
         IN  <<least>> \o sorted_keys(keys \ {least})

group_of(data, key) ==
    LET Member(row) == <<row.ticker, row.field>> = key IN SelectSeq(data, Member)

\* lines 201-208: each group is written to its cell's path; it joins the
\* result only when its cell of to_qry is 0 (outstanding)
RECURSIVE persist_groups_all(_, _, _, _, _)
persist_groups_all(st, data, keys, g, hits) ==
    IF g > Len(keys) THEN st
    ELSE LET grp == group_of(data, keys[g])
             data_file == _ref_file_(keys[g][1], keys[g][2], TRUE, FALSE, "pkl")
             fs == IF data_file # NoPath THEN to_file(st.files, data_file, grp)
                   ELSE st.files
             wr == IF data_file # NoPath THEN st.written \cup {data_file}
                   ELSE st.written
         IN  persist_groups_all(
                 [files |-> fs, written |-> wr, cache_data |-> st.cache_data \o grp],
                 data, keys, g + 1, hits)

RECURSIVE persist_groups(_, _, _, _, _)
persist_groups(st, data, keys, g, hits) ==
    IF g > Len(keys) THEN st
    ELSE LET grp == group_of(data, keys[g])
             data_file == _ref_file_(keys[g][1], keys[g][2], TRUE, FALSE, "pkl")
             fs == IF data_file # NoPath THEN to_file(st.files, data_file, grp)
                   ELSE st.files
             wr == IF data_file # NoPath THEN st.written \cup {data_file}
                   ELSE st.written
         IN  persist_groups(
                 [files |-> fs, written |-> wr,
                  cache_data |-> IF keys[g] \notin hits THEN st.cache_data \o grp
                                 ELSE st.cache_data],
                 data, keys, g + 1, hits)

\* utils.flatten(.., unique=True): the arguments without repetitions, each
\* kept at its first place
RECURSIVE flatten_unique(_)
flatten_unique(xs) ==
    IF xs = <<>> THEN <<>>
    ELSE LET front == flatten_unique(SubSeq(xs, 1, Len(xs) - 1))
         IN  IF xs[Len(xs)] \in Range(front) THEN front
             ELSE Append(front, xs[Len(xs)])

\* lines 179-211 on the arguments as lines 171-172 left them
bds_cached(fs, tm, tickers, flds) ==
    LET cells == product(tickers, flds)
        hits == {c \in Range(cells) : exists(fs, _ref_file_(c[1], c[2], TRUE, TRUE, "pkl"))}
        cached == read_cached(fs, cells, 1, TRUE, TRUE, "pkl")
        qry == to_qry(tickers, flds, hits)
        fetch == qry.index # <<>> /\ qry.columns # <<>>
        data == IF fetch THEN con_bulkref(tm, qry.index, qry.columns)
                ELSE [raised |-> FALSE, rows |-> <<>>]
        keys == sorted_keys({<<data.rows[i].ticker, data.rows[i].field>> :
                                i \in 1..Len(data.rows)})
        saved == persist_groups([files |-> fs, written |-> {}, cache_data |-> cached],
                                data.rows, keys, 1, hits)
    IN  IF data.raised
        THEN [raised |-> TRUE, files |-> fs, hits |-> hits, cached_data |-> cached,
              ref_tcks |-> qry.index, ref_flds |-> qry.columns, ncalls |-> 1,
              ref_data |-> <<>>, written |-> {}, result |-> <<>>]
        ELSE [raised |-> FALSE, files |-> saved.files, hits |-> hits,
              cached_data |-> cached,
              ref_tcks |-> IF fetch THEN qry.index ELSE <<>>,
              ref_flds |-> IF fetch THEN qry.columns ELSE <<>>,
              ncalls |-> IF fetch THEN 1 ELSE 0,
              ref_data |-> data.rows, written |-> saved.written,
              result |-> saved.cache_data]

\* bds(tickers, flds, cached=True) on cache fs and terminal tm
bds(fs, tm, tickers, flds) ==
    bds_cached(fs, tm, flatten_unique(tickers), flatten_unique(flds))

-----------------------------------------------------------------------------
(* State machine of the reference and block lookups                        *)

RefTickers == <<"AAA US Equity", "BBB US Equity">>
RefFlds == <<"Crncy", "DVD_Hist_All">>

NoCall ==
    [op |-> "none", uses |-> "none", tickers |-> <<>>, flds |-> <<>>, has_date |-> FALSE,
     from_cache |-> FALSE, raised |-> FALSE, hits |-> {}, cached_data |-> <<>>,
     ref_tcks |-> <<>>, ref_flds |-> <<>>, ncalls |-> 0, ref_data |-> <<>>,
     written |-> {}, result |-> <<>>, changed |-> {}, again |-> FALSE,
     persisted_before |-> {}]

\* the cells of the rows of a frame
CellsOf(rows) == {<<rows[i].ticker, rows[i].field>> : i \in 1..Len(rows)}

\* the paths whose content differs between two states of the cache
Changed(fs, fs2) ==
    {p \in DOMAIN fs \cup DOMAIN fs2 :
        \/ p \notin DOMAIN fs
        \/ p \notin DOMAIN fs2
        \/ fs[p] # fs2[p]}

\* the record of a call: its arguments and what it did.  `again` says that
\* it repeats the call before it (same operation and arguments, the terminal
\* unchanged in between), and persisted_before names the cells that call wrote.
Called(op, tickers, flds, has_date, from_cache, out) ==
    LET again == /\ call.op = op /\ call.tickers = tickers /\ call.flds = flds
                 /\ call.has_date = has_date /\ call.from_cache = from_cache
                 /\ ~call.raised
    IN  [op |-> op, uses |-> op, tickers |-> tickers, flds |-> flds, has_date |-> has_date,
         from_cache |-> from_cache, raised |-> out.raised, hits |-> out.hits,
         cached_data |-> out.cached_data, ref_tcks |-> out.ref_tcks,
         ref_flds |-> out.ref_flds, ncalls |-> out.ncalls, ref_data |-> out.ref_data,
         written |-> out.written, result |-> out.result,
         changed |-> Changed(files, out.files), again |-> again,
         persisted_before |-> IF again /\ call.written # {} THEN CellsOf(call.ref_data)
                              ELSE {}]

Init ==
    /\ files = <<>>
    /\ hist = <<>>
    /\ missing = <<>>
    /\ term = [ver |-> 1, norow |-> {}, bad |-> {}, vol |-> <<>>]
    /\ call = NoCall

\* bdp reads and writes only .parq paths and bds only .pkl paths, so what
\* either does is what it does in a run that uses it alone: a run uses one.
OnlyOp(op) == call.uses \in {"none", op}

\* a caller runs bdp(tickers, flds, cache=True, has_date=.., from_cache=..)
Bdp ==
    /\ OnlyOp("bdp")
    /\ \E tickers \in SubSeqs(RefTickers, MaxArgs), flds \in SubSeqs(RefFlds, MaxArgs),
         opts \in {<<FALSE, FALSE>>, <<TRUE, TRUE>>} :
          LET has_date == opts[1]
              from_cache == opts[2]
          IN
          LET out == bdp(files, term, tickers, flds, has_date, from_cache)
            IN  /\ files' = out.files
                /\ call' = Called("bdp", tickers, flds, has_date, from_cache, out)
                /\ UNCHANGED <<hist, missing, term>>

\* a caller runs bds(tickers, flds, cached=True)
\* the argument lists bds is called with: the lists of bdp, and one that
\* names its first element twice
BdsArgs(seq) == SubSeqs(seq, MaxArgs) \cup {<<seq[1], seq[1]>>}

Bds ==
    /\ OnlyOp("bds")
    /\ \E tickers \in BdsArgs(RefTickers), flds \in BdsArgs(RefFlds) :
          LET out == bds(files, term, tickers, flds)
          IN  /\ files' = out.files
              /\ call' = Called("bds", tickers, flds, TRUE, TRUE, out)
              /\ UNCHANGED <<hist, missing, term>>

\* The record of the last call describes a call against the terminal as it
\* is now: when the terminal changes, the record is dropped (what the run uses stays).
Forgotten == [NoCall EXCEPT !.uses = call.uses]

\* the market moves: the terminal reports another value
TerminalValue ==
    /\ \E v \in 1..MaxVer : v # term.ver /\ term' = [term EXCEPT !.ver = v]
    /\ call' = Forgotten
    /\ UNCHANGED <<files, hist, missing>>

\* the terminal stops or starts returning a row for a cell
NoRowCells == {<<"BBB US Equity", "DVD_Hist_All">>}

TerminalRows ==
    /\ \E c \in NoRowCells :
          term' = [term EXCEPT !.norow = IF c \in @ THEN @ \ {c} ELSE @ \cup {c}]
    /\ call' = Forgotten
    /\ UNCHANGED <<files, hist, missing>>

Next == Bdp \/ Bds \/ TerminalValue \/ TerminalRows

Spec == Init /\ [][Next]_vars

-----------------------------------------------------------------------------
(* Futures roll resolver: fut_ticker                                       *)

\* A ticker is the string the code is given, and is taken apart as the
\* code takes it apart.

Max(a, b) == IF a >= b THEN a ELSE b

\* line 425: the rows whose maturity is after dt
sub_fut_of(fut_matu, dt) ==
    LET Live(row) == row.value > dt IN SelectSeq(fut_matu, Live)

\* lines 401-409: the candidate contracts, one per period end from dt on
fut_candidates(prefix, idx, postfix, asset, dt, freq) ==
    LET month_ext == IF asset = Comdty THEN 4 ELSE 2
        periods == Max(idx + month_ext, 3)
        mths == months(dt, periods, freq)
    IN  [k \in 1..periods |-> to_fut(prefix, postfix, mths[k])]

\* lines 425-428: the row at position idx of the rows that mature after dt
\* (python indexing: a negative idx counts from the end)
fut_select(idx, fut, tried, trials, first, ncalls, got, sub_fut, pos) ==
    [files |-> got.files, ncalls |-> ncalls, trials |-> trials, idx |-> idx, fut |-> fut,
     tried |-> tried, first |-> first, fut_matu |-> got.result, sub_fut |-> sub_fut,
     failed |-> trials - 1,
     \* no 'value' column (AttributeError) or index out of range (IndexError)
     raised |-> got.result = <<>> \/ pos < 1 \/ pos > Len(sub_fut),
     ret |-> IF got.result = <<>> \/ pos < 1 \/ pos > Len(sub_fut) THEN <<>>
             ELSE sub_fut[pos].ticker]

fut_chain(idx, dt, fut, tried, trials, first, ncalls, got, sub_fut) ==
    fut_select(idx, fut, tried, trials, first, ncalls, got, sub_fut,
               IF idx >= 0 THEN idx + 1 ELSE Len(sub_fut) + idx + 1)

\* lines 417-423: the second trial, without the last candidate
fut_retry(fs, idx, dt, fut, fut2, first, t2) ==
    IF t2.raised
    THEN [files |-> fs, ncalls |-> 1 + t2.ncalls, trials |-> 2, idx |-> idx, fut |-> fut,
          tried |-> fut2, first |-> first, fut_matu |-> <<>>, sub_fut |-> <<>>,
          failed |-> 2, raised |-> FALSE, ret |-> <<>>]
    ELSE fut_chain(idx, dt, fut, fut2, 2, first, 1 + t2.ncalls, t2,
                   sub_fut_of(t2.result, dt))

\* lines 412-416: the first trial, with every candidate
fut_trial(fs, tm, idx, dt, fut, t1) ==
    IF t1.raised
    THEN fut_retry(fs, idx, dt, fut, SubSeq(fut, 1, Len(fut) - 1),
                   [raised |-> TRUE, hits |-> t1.hits],
                   bdp(fs, tm, SubSeq(fut, 1, Len(fut) - 1), <<"last_tradeable_dt">>,
                       FALSE, FALSE))
    ELSE fut_chain(idx, dt, fut, fut, 1, [raised |-> FALSE, hits |-> t1.hits],
                   t1.ncalls, t1, sub_fut_of(t1.result, dt))

fut_lookup(fs, tm, idx, dt, fut) ==
    fut_trial(fs, tm, idx, dt, fut,
              bdp(fs, tm, fut, <<"last_tradeable_dt">>, FALSE, FALSE))

\* fut_ticker(gen_ticker, dt, freq) on cache fs and terminal tm.
\* raised: an exception leaves the function; ret: the string returned.
\* The function ends before anything is looked up (idx is -1 then: none was read).
fut_none(fs, raised) ==
    [files |-> fs, ncalls |-> 0, trials |-> 0, idx |-> 0 - 1, fut |-> <<>>,
     tried |-> <<>>, first |-> [raised |-> FALSE, hits |-> {}], fut_matu |-> <<>>,
     sub_fut |-> <<>>, failed |-> 0, raised |-> raised, ret |-> <<>>]

\* lines 390 and 394: the part of the generic ticker that ends with its digit
gen_head(t_info) ==
    IF last_of(t_info) = Equity THEN t_info[1]
    ELSE join(SubSeq(t_info, 1, Len(t_info) - 1))

\* lines 391 and 395: what follows the year digit in a dated contract
gen_postfix(t_info) ==
    IF last_of(t_info) = Equity THEN join(Tail(t_info)) ELSE last_of(t_info)

\* lines 388-395: the generic ticker taken apart
fut_parsed(fs, tm, t_info, ticker, dt, freq) ==
    IF last_of(t_info) \notin {Index, Curncy, Comdty, Equity}
    THEN fut_none(fs, FALSE)
    ELSE IF ticker = <<>> \/ ~IsDigit(last_char(ticker))
    THEN \* ticker[-1] raises IndexError, int(..) raises ValueError
         fut_none(fs, TRUE)
    ELSE fut_lookup(fs, tm, int(last_char(ticker)) - 1, dt,
                    fut_candidates(but_last(ticker), int(last_char(ticker)) - 1,
                                   gen_postfix(t_info), last_of(t_info), dt, freq))

fut_ticker(fs, tm, gen_ticker, dt, freq) ==
    IF split(gen_ticker) = <<>>
    THEN \* t_info[-1] raises IndexError
         fut_none(fs, TRUE)
    ELSE fut_parsed(fs, tm, split(gen_ticker), gen_head(split(gen_ticker)), dt, freq)

-----------------------------------------------------------------------------
(* Intraday bar lookup: bdib                                               *)

\* the root of a ticker: what precedes its asset class, without a final digit
root_of(ticker) ==
    LET t_info == split(ticker)
        head == join(SubSeq(t_info, 1, Len(t_info) - 1))
    IN  IF head # <<>> /\ IsDigit(last_char(head)) THEN but_last(head) ELSE head

\* const.market_info(ticker): what is configured for the ticker's root
MarketInfo(tk) ==
    IF \E r \in FutRoots : r.prefix = root_of(tk) /\ r.asset = last_of(split(tk))
    THEN LET r == CHOOSE q \in FutRoots :
                      q.prefix = root_of(tk) /\ q.asset = last_of(split(tk))
         IN  [has_exch |-> TRUE, is_fut |-> TRUE, has_freq |-> r.freq # "",
              freq |-> r.freq, tz |-> r.tz, start_time |-> r.start_time,
              end_time |-> r.end_time, has_sprd |-> r.has_sprd, tickers |-> r.tickers]
    ELSE LET hours == IF last_of(split(tk)) = Curncy THEN CurncyHours ELSE EquityHours
         IN  [has_exch |-> TRUE, is_fut |-> FALSE, has_freq |-> FALSE, freq |-> "",
              tz |-> hours.tz, start_time |-> hours.start_time,
              end_time |-> hours.end_time, has_sprd |-> FALSE, tickers |-> <<>>]

\* hours of a day ('1D' of line 264)
HoursPerDay == 24

\* line 264, with the end moved instead of the start
roll_end(idx) == IF idx[1] > idx[2] THEN <<idx[1], idx[2] - HoursPerDay>> ELSE idx

\* line 264: a start after the end is moved back one day
roll_start(idx) == IF idx[1] > idx[2] THEN <<idx[1] - HoursPerDay, idx[2]>> ELSE idx

\* tz_localize of line 263 raises for a local time the zone does not have
\* (the hour the clocks skip) or has twice (the hour they repeat)
no_local_time(zone, dt, hour) ==
    /\ dt = ChangeDay
    /\ \/ zone.change = 1 /\ hour = 2
       \/ zone.change = 0 - 1 /\ hour = 1

\* the UTC offset of the zone at a local time that exists once
utc_offset(zone, dt, hour) ==
    IF zone.change = 0 \/ dt < ChangeDay \/ (dt = ChangeDay /\ hour < 2)
    THEN zone.utc
    ELSE zone.utc + zone.change

\* one local time of the day as an hour of UTC
utc_hour(zone, dt, hour) == dt * HoursPerDay + hour - utc_offset(zone, dt, hour)

\* lines 261-263: the session of the day as hours of UTC
to_utc(dt, info) ==
    <<utc_hour(info.tz, dt, info.start_time), utc_hour(info.tz, dt, info.end_time)>>

\* lines 260-264: the window asked of the terminal
time_idx(dt, info) == roll_start(to_utc(dt, info))

\* assist.current_missing / assist.update_missing: the miss counter of a key
current_missing(ms, key) == IF key \in DOMAIN ms THEN ms[key] ELSE 0

update_missing(ms, key) ==
    [k \in DOMAIN ms \cup {key} |-> IF k = key THEN current_missing(ms, key) + 1 ELSE ms[k]]

\* con.bdib(ticker, ...): the bars of the day, empty when the terminal has none
con_bdib(tm, q_tckr, dt) ==
    IF q_tckr \in DOMAIN tm.vol /\ tm.vol[q_tckr] > 0
    THEN <<[ticker |-> q_tckr, dt |-> dt, volume |-> tm.vol[q_tckr]]>>
    ELSE <<>>

\* assist._save_intraday_: the bars are written to the key's cache file
_save_intraday_(hs, key, data) ==
    [k \in DOMAIN hs \cup {key} |-> IF k = key THEN data ELSE hs[k]]

\* line 280: the threshold of the miss counter
miss_limit == 2

\* what a bdib call returns and did.  ret is "None", "empty" (pd.DataFrame())
\* or "data"; nref and nbar count the terminal's reference and bar queries.
\* window is the time window passed to the terminal (<<>>: no bar query made).
bdib_out(ret, at, data, fs, hs, ms, nref, nbar, raised, window) ==
    [ret |-> ret, at |-> at, data |-> data, files |-> fs, hist |-> hs, missing |-> ms,
     nref |-> nref, nbar |-> nbar, raised |-> raised, window |-> window]

\* lines 293-302: an empty answer is counted as a miss, bars are saved
bdib_loaded(fs, hs, ms, key, batch, nref, win, data) ==
    IF data = <<>>
    THEN bdib_out("empty", "no_data", <<>>, fs, hs, update_missing(ms, key), nref, 1, FALSE,
                  win)
    ELSE bdib_out(IF batch THEN "None" ELSE "data", "loaded", data, fs,
                  _save_intraday_(hs, key, data), ms, nref, 1, FALSE, win)

\* lines 278-291 without the check of the miss counter
bdib_query_unchecked(fs, hs, ms, tm, key, q_tckr, dt, batch, nref, win) ==
    bdib_loaded(fs, hs, ms, key, batch, nref, win, con_bdib(tm, q_tckr, dt))

\* lines 278-291: no query once the key has missed miss_limit times
bdib_query(fs, hs, ms, tm, key, q_tckr, dt, batch, nref, win) ==
    IF current_missing(ms, key) >= miss_limit
    THEN bdib_out(IF batch THEN "None" ELSE "empty", "missed", <<>>, fs, hs, ms, nref, 0,
                  FALSE, <<>>)
    ELSE bdib_loaded(fs, hs, ms, key, batch, nref, win, con_bdib(tm, q_tckr, dt))

\* lines 273-276: the dated contract of a generic futures ticker
bdib_resolved(hs, ms, tm, key, dt, batch, win, ft) ==
    IF ft.raised
    THEN bdib_out("None", "fut_ticker", <<>>, ft.files, hs, ms, ft.ncalls, 0, TRUE, <<>>)
    ELSE IF ft.ret = <<>>
    THEN bdib_out("empty", "no_fut_ticker", <<>>, ft.files, hs, ms, ft.ncalls, 0, FALSE, <<>>)
    ELSE bdib_query(ft.files, hs, ms, tm, key, ft.ret, dt, batch, ft.ncalls, win)

\* line 271: info.get('has_sprd', False) and len(ticker[:-1]) != info['tickers'][0]
is_sprd(tk, info) == info.has_sprd /\ Len(but_last(tk)) # info.tickers[1]

\* lines 246-276: the market info of the ticker
bdib_info(fs, hs, ms, tm, tk, key, dt, batch, info) ==
    IF last_of(split(tk)) \notin {Equity, Curncy, Index, Comdty}
    THEN bdib_out("empty", "unknown_asset", <<>>, fs, hs, ms, 0, 0, FALSE, <<>>)
    ELSE IF ~info.has_exch
    THEN bdib_out("empty", "no_market_info", <<>>, fs, hs, ms, 0, 0, FALSE, <<>>)
    ELSE IF no_local_time(info.tz, dt, info.start_time)
                \/ no_local_time(info.tz, dt, info.end_time)
    THEN \* line 263: tz_localize raises
         bdib_out("None", "no_local_time", <<>>, fs, hs, ms, 0, 0, TRUE, <<>>)
    ELSE IF ~info.is_fut
    THEN bdib_query(fs, hs, ms, tm, key, tk, dt, batch, 0, time_idx(dt, info))
    ELSE IF info.has_sprd /\ info.tickers = <<>>
    THEN \* info['tickers'][0] raises
         bdib_out("None", "no_tickers", <<>>, fs, hs, ms, 0, 0, TRUE, <<>>)
    ELSE IF is_sprd(tk, info)
    THEN \* line 272: a spread is queried under its own ticker
         bdib_query(fs, hs, ms, tm, key, tk, dt, batch, 0, time_idx(dt, info))
    ELSE IF ~info.has_freq
    THEN \* info['freq'] raises KeyError
         bdib_out("None", "no_freq", <<>>, fs, hs, ms, 0, 0, TRUE, <<>>)
    ELSE bdib_resolved(hs, ms, tm, key, dt, batch, time_idx(dt, info),
                       fut_ticker(fs, tm, tk, dt, info.freq))

\* lines 230-244 without the check of the cache file
bdib_key_info_first(fs, hs, ms, tm, tk, key, dt, batch) ==
    IF (~(dt < Today - 1)) /\ batch
    THEN bdib_out("None", "too_close", <<>>, fs, hs, ms, 0, 0, FALSE, <<>>)
    ELSE IF split(tk) = <<>>
    THEN bdib_out("None", "no_ticker", <<>>, fs, hs, ms, 0, 0, TRUE, <<>>)
    ELSE bdib_info(fs, hs, ms, tm, tk, key, dt, batch, MarketInfo(tk))

\* lines 230-244: the freshness guard of batch mode, the asset class of the
\* ticker, then the cache
bdib_key(fs, hs, ms, tm, tk, key, dt, batch) ==
    IF (~(dt < Today - 1)) /\ batch
    THEN bdib_out("None", "too_close", <<>>, fs, hs, ms, 0, 0, FALSE, <<>>)
    ELSE IF split(tk) = <<>>
    THEN \* line 237: ticker.split()[-1] raises IndexError
         bdib_out("None", "no_ticker", <<>>, fs, hs, ms, 0, 0, TRUE, <<>>)
    ELSE IF key \in DOMAIN hs
    THEN bdib_out(IF batch THEN "None" ELSE "data", "cached",
                  IF batch THEN <<>> ELSE hs[key], fs, hs, ms, 0, 0, FALSE, <<>>)
    ELSE bdib_info(fs, hs, ms, tm, tk, key, dt, batch, MarketInfo(tk))

\* bdib(ticker, dt, typ, batch)
bdib(fs, hs, ms, tm, tk, dt, typ, batch) ==
    bdib_key(fs, hs, ms, tm, tk, <<tk, dt, typ>>, dt, batch)

-----------------------------------------------------------------------------
(* Active contract selector: active_futures                                *)

\* pd.Timestamp(d).month: the calendar month 1..12
CalMonth(d) == (MonthOf(d) % 12) + 1

\* line 363: fut_tk.value[0], the value of the row labelled 0
value_0(fut_tk) ==
    LET at == CHOOSE i \in 1..Len(fut_tk) : fut_tk[i].label = 0 IN fut_tk[at].value

RECURSIVE sum_volume(_)
sum_volume(d) == IF d = <<>> THEN 0 ELSE Head(d).volume + sum_volume(Tail(d))

\* what an active_futures call returns and did
af_out(raised, ret, at, fs, hs, ms, nbdib, nref, nbar, fut_1, fut_2, fut_tk, hits) ==
    [raised |-> raised, ret |-> ret, at |-> at, files |-> fs, hist |-> hs,
     missing |-> ms, nbdib |-> nbdib, nref |-> nref, nbar |-> nbar, fut_1 |-> fut_1,
     fut_2 |-> fut_2, fut_tk |-> fut_tk, hits |-> hits]

\* line 368: the contract with the higher volume of the day
af_volume(r2, r1, b, nref, d1, d2) ==
    IF d2.raised
    THEN af_out(TRUE, <<>>, "bdib_2", d2.files, d2.hist, d2.missing, 2,
                nref + d1.nref + d2.nref, d1.nbar + d2.nbar, r1.ret, r2.ret, b.result,
                b.hits)
    ELSE IF d1.ret # "data" \/ d2.ret # "data"
    THEN \* pd.DataFrame() has no 'volume' column (AttributeError)
         af_out(TRUE, <<>>, "volume", d2.files, d2.hist, d2.missing, 2,
                nref + d1.nref + d2.nref, d1.nbar + d2.nbar, r1.ret, r2.ret, b.result,
                b.hits)
    ELSE af_out(FALSE,
                IF sum_volume(d1.data) > sum_volume(d2.data) THEN r1.ret ELSE r2.ret,
                "volume", d2.files, d2.hist, d2.missing, 2,
                nref + d1.nref + d2.nref, d1.nbar + d2.nbar, r1.ret, r2.ret, b.result,
                b.hits)

\* lines 365-366: the bars of both generic tickers
af_bars(tm, f1, f2, dt, r2, r1, b, nref, d1) ==
    IF d1.raised
    THEN af_out(TRUE, <<>>, "bdib_1", d1.files, d1.hist, d1.missing, 1, nref + d1.nref,
                d1.nbar, r1.ret, r2.ret, b.result, b.hits)
    ELSE af_volume(r2, r1, b, nref, d1,
                   bdib(d1.files, d1.hist, d1.missing, tm, f2, dt, "TRADE", FALSE))

\* lines 361-365: the front contract is active while its maturity month is ahead
af_front(hs, ms, tm, f1, f2, dt, r2, r1, b, nref) ==
    IF b.raised
    THEN af_out(TRUE, <<>>, "bdp", b.files, hs, ms, 0, nref, 0, r1.ret, r2.ret, <<>>, b.hits)
    ELSE IF b.result = <<>> \/ ~(\E i \in 1..Len(b.result) : b.result[i].label = 0)
    THEN \* no 'value' column (AttributeError) or no row labelled 0 (KeyError)
         af_out(TRUE, <<>>, "value_0", b.files, hs, ms, 0, nref, 0, r1.ret, r2.ret,
                b.result, b.hits)
    ELSE IF CalMonth(dt) < CalMonth(value_0(b.result))
    THEN af_out(FALSE, r1.ret, "front", b.files, hs, ms, 0, nref, 0, r1.ret, r2.ret,
                b.result, b.hits)
    ELSE af_bars(tm, f1, f2, dt, r2, r1, b, nref,
                 bdib(b.files, hs, ms, tm, f1, dt, "TRADE", FALSE))

\* line 359: the dated contract of the first generic ticker
af_fut_1(hs, ms, tm, f1, f2, dt, r2, r1) ==
    IF r1.raised
    THEN af_out(TRUE, <<>>, "fut_1", r1.files, hs, ms, 0, r2.ncalls + r1.ncalls, 0,
                <<>>, r2.ret, <<>>, {})
    ELSE af_front(hs, ms, tm, f1, f2, dt, r2, r1,
                  bdp(r1.files, tm, <<r1.ret, r2.ret>>, <<"Last_Tradeable_Dt">>,
                      FALSE, FALSE),
                  r2.ncalls + r1.ncalls
                    + bdp(r1.files, tm, <<r1.ret, r2.ret>>, <<"Last_Tradeable_Dt">>,
                          FALSE, FALSE).ncalls)

\* line 358: the dated contract of the second generic ticker
af_fut_2(hs, ms, tm, f1, f2, dt, freq, r2) ==
    IF r2.raised
    THEN af_out(TRUE, <<>>, "fut_2", r2.files, hs, ms, 0, r2.ncalls, 0, <<>>, <<>>, <<>>, {})
    ELSE af_fut_1(hs, ms, tm, f1, f2, dt, r2, fut_ticker(r2.files, tm, f1, dt, freq))

\* lines 353-358: the two nearest generic tickers of the root
af_generics(fs, hs, ms, tm, f1, f2, dt, info) ==
    IF ~info.has_freq
    THEN \* info['freq'] raises KeyError
         af_out(TRUE, <<>>, "no_freq", fs, hs, ms, 0, 0, 0, <<>>, <<>>, <<>>, {})
    ELSE af_fut_2(hs, ms, tm, f1, f2, dt, info.freq,
                  fut_ticker(fs, tm, f2, dt, info.freq))

\* active_futures(ticker, dt)
\* lines 353-357: the root is the ticker without the last character before
\* its asset class
af_named(fs, hs, ms, tm, prefix, asset, dt) ==
    \* f'{prefix[:-1]}1 {asset}' and f'{prefix[:-1]}2 {asset}'
    af_generics(fs, hs, ms, tm, but_last(prefix) \o <<49, 32>> \o asset,
                but_last(prefix) \o <<50, 32>> \o asset, dt,
                MarketInfo(but_last(prefix) \o <<49, 32>> \o asset))

active_futures(fs, hs, ms, tm, ticker, dt) ==
    IF split(ticker) = <<>>
    THEN \* t_info[-1] raises IndexError
         af_out(TRUE, <<>>, "no_ticker", fs, hs, ms, 0, 0, 0, <<>>, <<>>, <<>>, {})
    ELSE af_named(fs, hs, ms, tm,
                  join(SubSeq(split(ticker), 1, Len(split(ticker)) - 1)),
                  last_of(split(ticker)), dt)

-----------------------------------------------------------------------------
(* State machine of the futures resolver and the active contract selector  *)

FutGens == {ES1, ES2Tab, CL1, ESA}

\* as-of dates: the last day of February, then the day before and the day
\* of the maturity of the March contract
Dts == {2 * DaysPerMonth - 1, 2 * DaysPerMonth + MatDay - 1, 2 * DaysPerMonth + MatDay}

\* the days whose bars are asked for: the day before yesterday, yesterday
\* and today
BdibDts == {Today - 2, Today - 1, Today}

\* the tickers, days and modes bdib is called with: every ticker for the day
\* before yesterday, the generic in batch mode too, and the equity in batch
\* mode for yesterday and today
BdibInputs ==
    ({AAA, AUD, ES1, XX1, Corp, UX1, Blank} \X {Today - 2} \X {FALSE})
        \cup {<<ES1, Today - 2, TRUE>>}
        \cup ({AAA} \X (BdibDts \ {Today - 2}) \X {TRUE})

\* the dated contracts these dates and generics lead to: those of the root
\* 'ES' (<<69, 83>>) for March, June and September
Cands ==
    <<to_fut(<<69, 83>>, Index, 2), to_fut(<<69, 83>>, Index, 5), to_fut(<<69, 83>>, Index, 8)>>

\* the volumes of the bars a terminal has for the first two contracts; it
\* has no bars for any other ticker
Vols == [{Cands[1], Cands[2]} -> 0..MaxVol]

\* the terminals the resolver may face: one that rejects the first or the
\* last candidate or none, and that lacks the maturity row of the second or
\* of none
FutTerms ==
    [ver : {1},
     norow : {{}, {<<Cands[2], "last_tradeable_dt">>}},
     bad : {{}, {Cands[1]}, {Cands[3]}},
     vol : {[c \in DOMAIN v |-> 1] : v \in Vols}]

\* the terminals of the intraday lookup: with bars for both contracts or
\* for neither, rejecting the last candidate or none
BdibTerms ==
    [ver : {1}, norow : {{}}, bad : {{}, {Cands[3]}},
     vol : {[c \in DOMAIN v |-> n] : v \in Vols, n \in {0, 1}}]

\* the terminals of the active contract selector: bars of any volume for the
\* first candidate, and none or bars of volume 1 for the second
ActiveTerms ==
    [ver : {1}, norow : {{}}, bad : {{}},
     vol : {v \in Vols : v[Cands[2]] <= 1}]

InitOn(terms) ==
    /\ files = <<>>
    /\ hist = <<>>
    /\ missing = <<>>
    /\ term \in terms
    /\ call = [op |-> "none"]

\* a caller resolves a generic ticker
FutTicker ==
    \E gen \in FutGens, dt \in Dts : \E freq \in {MarketInfo(gen).freq} :
        LET out == fut_ticker(files, term, gen, dt, freq)
        IN  /\ files' = out.files
            /\ call' = [op |-> "fut_ticker", gen |-> gen, dt |-> dt, raised |-> out.raised,
                        ret |-> out.ret, ncalls |-> out.ncalls, trials |-> out.trials,
                        idx |-> out.idx, fut |-> out.fut, tried |-> out.tried,
                        fut_matu |-> out.fut_matu, sub_fut |-> out.sub_fut,
                        first |-> out.first, failed |-> out.failed]
            /\ UNCHANGED <<hist, missing, term>>

\* a caller looks up the maturity of one dated contract through the cache
BdpMaturity ==
    \E c \in 1..Len(Cands) :
        LET out == bdp(files, term, <<Cands[c]>>, <<"last_tradeable_dt">>, FALSE, FALSE)
        IN  /\ files' = out.files
            /\ call' = [op |-> "bdp", tickers |-> <<Cands[c]>>,
                        flds |-> <<"last_tradeable_dt">>, raised |-> out.raised]
            /\ UNCHANGED <<hist, missing, term>>

\* the same lookup under the field name active_futures uses
BdpLastTradeable ==
    \E c \in 1..2 :
        LET out == bdp(files, term, <<Cands[c]>>, <<"Last_Tradeable_Dt">>, FALSE, FALSE)
        IN  /\ files' = out.files
            /\ call' = [op |-> "bdp", tickers |-> <<Cands[c]>>,
                        flds |-> <<"Last_Tradeable_Dt">>, raised |-> out.raised]
            /\ UNCHANGED <<hist, missing, term>>

\* a caller asks for the bars of a day
Bdib ==
    \E inp \in BdibInputs :
        LET tk == inp[1]
            dt == inp[2]
            batch == inp[3]
            out == bdib(files, hist, missing, term, tk, dt, "TRADE", batch)
            key == <<tk, dt, "TRADE">>
        IN  /\ files' = out.files
            /\ hist' = out.hist
            /\ missing' = out.missing
            /\ call' = [op |-> "bdib", tk |-> tk, dt |-> dt, batch |-> batch,
                        ret |-> out.ret, at |-> out.at, raised |-> out.raised,
                        nref |-> out.nref, nbar |-> out.nbar, data |-> out.data,
                        window |-> out.window,
                        had_file |-> key \in DOMAIN hist,
                        cached |-> IF key \in DOMAIN hist THEN hist[key] ELSE <<>>,
                        misses |-> current_missing(missing, key),
                        kept |-> out.files = files /\ out.hist = hist
                                    /\ out.missing = missing]
            /\ UNCHANGED term

\* the terminal, which had no bars, gets the bars of the day
TerminalBars ==
    /\ \A c \in DOMAIN term.vol : term.vol[c] = 0
    /\ term' = [term EXCEPT !.vol = [c \in DOMAIN term.vol |-> 1]]
    /\ call' = [op |-> "none"]
    /\ UNCHANGED <<files, hist, missing>>

\* another session of the program, which shares the cache directory, gets
\* and saves the bars of a key this session has given up asking the terminal
\* for
PeerSaved ==
    \E inp \in BdibInputs :
        LET key == <<inp[1], inp[2], "TRADE">>
        IN  /\ key \notin DOMAIN hist
            /\ current_missing(missing, key) >= miss_limit
            /\ hist' = _save_intraday_(hist, key,
                           <<[ticker |-> inp[1], dt |-> inp[2], volume |-> 1]>>)
            /\ call' = [op |-> "none"]
            /\ UNCHANGED <<files, missing, term>>

\* a caller asks for the active contract on a day before the maturity of
\* the front contract
ActiveFutures ==
    \E dt \in Dts \ {2 * DaysPerMonth + MatDay} :
        LET out == active_futures(files, hist, missing, term, ESA, dt)
        IN  /\ files' = out.files
            /\ hist' = out.hist
            /\ missing' = out.missing
            /\ call' = [op |-> "active_futures", dt |-> dt, raised |-> out.raised,
                        ret |-> out.ret, at |-> out.at, nbdib |-> out.nbdib,
                        nref |-> out.nref, nbar |-> out.nbar, fut_1 |-> out.fut_1,
                        fut_2 |-> out.fut_2, fut_tk |-> out.fut_tk, hits |-> out.hits]
            /\ UNCHANGED term

InitFut == InitOn(FutTerms)

NextFut == FutTicker \/ BdpMaturity

SpecFut == InitFut /\ [][NextFut]_vars

InitBdib == InitOn(BdibTerms)

NextBdib == Bdib \/ TerminalBars \/ PeerSaved

SpecBdib == InitBdib /\ [][NextBdib]_vars

InitActive == InitOn(ActiveTerms)

NextActive == ActiveFutures \/ BdpMaturity \/ BdpLastTradeable

SpecActive == InitActive /\ [][NextActive]_vars

-----------------------------------------------------------------------------
(* Properties of the reference and block lookups                           *)

CellOf(row) == <<row.ticker, row.field>>
IsLookup == call.op \in {"bdp", "bds"}

\* C1: the cells sent to the terminal in the fetch of a bdp(cache=True) or
\* bds(cached=True) call never include a cell found in the cache in that call.
C1_FetchExcludesCached ==
    IsLookup =>
        \A i \in 1..Len(call.ref_tcks), j \in 1..Len(call.ref_flds) :
            <<call.ref_tcks[i], call.ref_flds[j]>> \notin call.hits

\* C4: in bdp(cache=True), a cell with both a row read from the cache and a
\* row returned by the terminal has exactly one row in the result, the fresh one.
C4_FreshRowWins ==
    (call.op = "bdp" /\ ~call.raised) =>
        \A c \in call.hits \cap CellsOf(call.ref_data) :
            LET at == {i \in 1..Len(call.result) : CellOf(call.result[i]) = c}
            IN  /\ Cardinality(at) = 1
                /\ \A i \in at :
                      /\ call.result[i].label >= Len(call.cached_data)
                      /\ \E r \in 1..Len(call.ref_data) :
                            /\ CellOf(call.ref_data[r]) = c
                            /\ call.result[i].label = Len(call.cached_data) + r - 1
                            /\ call.result[i].value = call.ref_data[r].value

\* a cell was read from the cache with one value and fetched with another
C4_Witness ==
    /\ call.op = "bdp"
    /\ \E i \in 1..Len(call.cached_data), r \in 1..Len(call.ref_data) :
          /\ CellOf(call.cached_data[i]) = CellOf(call.ref_data[r])
          /\ call.cached_data[i].value # call.ref_data[r].value

\* C5: the cells of the result of bdp(cache=True) are the requested cells found
\* in the cache or returned by the terminal, each exactly once.
C5_ResultCoversCells ==
    (call.op = "bdp" /\ ~call.raised) =>
        /\ CellsOf(call.result) = call.hits \cup CellsOf(call.ref_data)
        /\ CellsOf(call.result) \subseteq Range(product(call.tickers, call.flds))
        /\ \A i, j \in 1..Len(call.result) :
              CellOf(call.result[i]) = CellOf(call.result[j]) => i = j

\* a call that read some cells from the cache, fetched others and fetched a
\* cached cell again, while the terminal had no row for one fetched cell
C5_Witness ==
    /\ call.op = "bdp"
    /\ call.hits \cap CellsOf(call.ref_data) # {}
    /\ CellsOf(call.ref_data) \ call.hits # {}
    /\ Len(call.ref_data) < Len(call.ref_tcks) * Len(call.ref_flds)

\* C8: a lookup repeated with the same arguments against an unchanged
\* terminal leaves every cache file as the first call left it.
C8_RepeatKeepsFiles ==
    (IsLookup /\ call.again) => call.changed = {}

\* a repeated call that wrote cache files again
C8_Witness ==
    IsLookup /\ call.again /\ call.written # {}

\* C9: every cell a lookup fetched and persisted is a cache hit in the next
\* call with the same arguments.
C9_PersistedIsHit ==
    (IsLookup /\ call.again) => call.persisted_before \subseteq call.hits

\* C10: a bdp(cache=True) call that finds nothing in the cache makes one
\* terminal call for all requested cells, writes one file per returned row at
\* the row's cell path, and returns one row per returned cell with the
\* terminal's value.
C10_ColdCall ==
    (call.op = "bdp" /\ call.hits = {} /\ ~call.raised) =>
        /\ call.ncalls = 1
        /\ call.ref_tcks = call.tickers /\ call.ref_flds = call.flds
        /\ call.written = {_ref_file_(call.ref_data[r].ticker, call.ref_data[r].field,
                                      FALSE, FALSE, "parq") : r \in 1..Len(call.ref_data)}
        /\ Cardinality(call.written) = Len(call.ref_data)
        /\ \A r \in 1..Len(call.ref_data) :
              LET row == call.ref_data[r]
                  data_file == _ref_file_(row.ticker, row.field, FALSE, FALSE, "parq")
              IN  /\ exists(files, data_file) /\ files[data_file] = <<row>>
                  /\ row.value = TermValue(term, row.ticker, row.field)
        /\ Len(call.result) = Len(call.ref_data)
        /\ \A r \in 1..Len(call.ref_data) :
              /\ CellOf(call.result[r]) = CellOf(call.ref_data[r])
              /\ call.result[r].value = call.ref_data[r].value

\* a cold call for which the terminal returned several rows
C10_Witness ==
    call.op = "bdp" /\ call.hits = {} /\ Len(call.ref_data) >= 2

-----------------------------------------------------------------------------
(* Properties of the futures resolver, the intraday lookup and the active  *)
(* contract selector                                                       *)

\* the maturity the terminal has for a dated contract
Maturity(c) == TermValue(term, c, "last_tradeable_dt")

\* what the specification expects, independent of the cache: the candidates
\* of a resolution that mature after its as-of date, in chronological order
LiveOf(fut, dt) == LET Live(c) == Maturity(c) > dt IN SelectSeq(fut, Live)

\* C2: on a terminal that knows every candidate, fut_ticker returns the
\* contract at position idx of the candidates maturing strictly after the
\* as-of date, in chronological order, whatever part of the maturities was
\* already cached, and never a contract maturing on or before that date.
C2_PositionAmongLive ==
    (call.op = "fut_ticker" /\ call.fut # <<>> /\ term.norow = {} /\ term.bad = {}) =>
        /\ call.ret # <<>> => Maturity(call.ret) > call.dt
        /\ call.idx + 1 <= Len(LiveOf(call.fut, call.dt)) =>
              /\ ~call.raised
              /\ call.ret = LiveOf(call.fut, call.dt)[call.idx + 1]

\* C3: fut_ticker tries the maturity query at most twice, the second time
\* without the last candidate; a retry that succeeds yields a non-empty
\* symbol, two failures yield the empty string, and the terminal is called
\* at most twice.
C3_RetryOnce ==
    call.op = "fut_ticker" =>
        /\ call.trials <= 2
        /\ call.ncalls <= 2
        /\ call.trials = 2 =>
              /\ call.first.raised
              /\ call.tried = SubSeq(call.fut, 1, Len(call.fut) - 1)
        /\ (call.trials = 2 /\ call.failed = 1) => (~call.raised /\ call.ret # <<>>)
        /\ call.failed = 2 => (~call.raised /\ call.ret = <<>>)

\* C6: a bdib call for a key without cached bars that has already missed
\* miss_limit times makes no terminal query, neither for bars nor for
\* reference data.
C6_ThirdCallIsLocal ==
    (call.op = "bdib" /\ ~call.had_file /\ call.misses >= miss_limit) =>
        (call.nref = 0 /\ call.nbar = 0)

\* the front contract the specification expects for the root on a day: the
\* first candidate in chronological order that matures after it. It is the
\* reference the claims compare with, whatever the cache holds; what
\* fut_ticker returns is call.ret
ExpectedFront(dt) == LiveOf(Cands, dt)[1]

\* C7: when the month of the as-of date is before the maturity month of the
\* front contract, active_futures returns the front contract and makes no
\* bdib call, whatever maturities were cached.
C7_FrontBeforeMaturityMonth ==
    (call.op = "active_futures"
        /\ CalMonth(call.dt) < CalMonth(Maturity(ExpectedFront(call.dt)))) =>
        (~call.raised /\ call.ret = ExpectedFront(call.dt) /\ call.nbdib = 0)

\* the batch freshness guard of a bdib call applies
Guarded == call.batch /\ ~(call.dt < Today - 1)

\* C11: bdib returns an empty result and does not raise for a ticker of an
\* unknown asset class (without any terminal query) and for a futures ticker
\* whose market info has no roll frequency.
C11_UnsupportedInputIsEmpty ==
    (call.op = "bdib" /\ ~call.had_file /\ ~Guarded) =>
        /\ (split(call.tk) # <<>>
              /\ last_of(split(call.tk)) \notin {Equity, Curncy, Index, Comdty}) =>
              (call.ret = "empty" /\ ~call.raised /\ call.nref = 0 /\ call.nbar = 0)
        /\ (split(call.tk) # <<>>
              /\ MarketInfo(call.tk).is_fut /\ ~MarketInfo(call.tk).has_freq) =>
              (call.ret = "empty" /\ ~call.raised)

\* C12: fut_ticker never raises: whatever the terminal answers, it returns
\* one of the candidate symbols or the empty string.
C12_NeverRaises ==
    call.op = "fut_ticker" =>
        (~call.raised /\ call.ret \in Range(call.fut) \cup {<<>>})

\* the two-digit year of a month, and the symbol of a month's contract written
\* with it
TwoDigitYear(month) ==
    <<Digits[((YearOf(month) % 100) \div 10) + 1], Digits[(YearOf(month) % 10) + 1]>>

TwoDigitSymbol(prefix, postfix, month) ==
    prefix \o <<Futures[(month % 12) + 1]>> \o TwoDigitYear(month) \o <<32>> \o postfix

\* C16: the candidates of fut_ticker are one per month of a window of
\* max(idx + 4 for Comdty else 2, 3) months, each the prefix, the month
\* code, the two-digit year, a blank and the postfix, and they are distinct.
C16_TwoDigitYearSymbols ==
    (call.op = "fut_ticker" /\ call.fut # <<>>) =>
        LET n == Max(call.idx + (IF last_of(split(call.gen)) = Comdty THEN 4 ELSE 2), 3)
            ms == months(call.dt, n, MarketInfo(call.gen).freq)
        IN  /\ Len(call.fut) = n
            /\ \A k \in 1..n :
                  call.fut[k] = TwoDigitSymbol(but_last(split(call.gen)[1]),
                                                last_of(split(call.gen)), ms[k])
            /\ \A j, k \in 1..n : j # k => call.fut[j] # call.fut[k]

\* C13: a batch call of bdib for a day after yesterday returns nothing and
\* reads, queries and changes nothing; a batch call for yesterday or an
\* earlier day is not stopped by the guard.
C13_BatchGuardAfterYesterday ==
    (call.op = "bdib" /\ call.batch) =>
        /\ call.dt > Today - 1 =>
              /\ call.ret = "None" /\ call.at = "too_close" /\ ~call.raised
              /\ call.nref = 0 /\ call.nbar = 0 /\ call.kept
        /\ call.dt <= Today - 1 => call.at # "too_close"

\* C14: in bds(cached=True) the rows returned for a cell are its cached rows
\* when the cell was a cache hit, and otherwise the group the terminal
\* returned for it: an over-fetched cached cell is not returned twice.
C14_OneSourcePerCell ==
    (call.op = "bds" /\ ~call.raised) =>
        \A c \in Range(product(call.tickers, call.flds)) :
            group_of(call.result, c) =
                IF c \in call.hits THEN group_of(call.cached_data, c)
                ELSE group_of(call.ref_data, c)

\* a bds call that fetched a cached cell again, together with an outstanding one
C14_Witness ==
    /\ call.op = "bds" /\ ~call.raised
    /\ \E c \in call.hits : group_of(call.ref_data, c) # <<>>
    /\ \E c \in CellsOf(call.ref_data) : c \notin call.hits /\ group_of(call.result, c) # <<>>

\* the contract the specification expects after the front contract, and the
\* volume of a contract's bars
ExpectedSecond(dt) == LiveOf(Cands, dt)[2]

VolumeOf(c) == IF c \in DOMAIN term.vol THEN term.vol[c] ELSE 0

\* C15: when the month of the as-of date is not before the maturity month of
\* the front contract, active_futures fetches the bars of both contracts
\* and returns the front contract exactly when its volume is strictly
\* higher, and the second contract otherwise, empty bars included, without
\* raising.
C15_HigherVolumeWins ==
    (call.op = "active_futures"
        /\ ~(CalMonth(call.dt) < CalMonth(Maturity(ExpectedFront(call.dt))))) =>
        /\ ~call.raised
        /\ call.nbdib = 2
        /\ call.ret = IF VolumeOf(ExpectedFront(call.dt)) > VolumeOf(ExpectedSecond(call.dt))
                      THEN ExpectedFront(call.dt) ELSE ExpectedSecond(call.dt)

\* the miss counter of a key in a state of the counters
MissesIn(ms, key) == IF key \in DOMAIN ms THEN ms[key] ELSE 0

\* C17: across bdib calls the miss counter of a key never decreases, grows
\* only by a bar query that returned no data, and a key that has missed
\* miss_limit times is not queried for bars again, so that no key ever
\* counts more than miss_limit empty bar queries.
C17_MissCounterSteps ==
    [][\A key \in DOMAIN missing \cup DOMAIN missing' :
          /\ MissesIn(missing', key) >= MissesIn(missing, key)
          /\ MissesIn(missing', key) <= miss_limit
          /\ MissesIn(missing', key) > MissesIn(missing, key) =>
                /\ MissesIn(missing', key) = MissesIn(missing, key) + 1
                /\ call'.op = "bdib" /\ key = <<call'.tk, call'.dt, "TRADE">>
                /\ call'.nbar = 1 /\ call'.data = <<>> /\ call'.ret = "empty"
          /\ (call'.op = "bdib" /\ key = <<call'.tk, call'.dt, "TRADE">>
                /\ MissesIn(missing, key) >= miss_limit) => call'.nbar = 0]_vars

\* a bdib call for a key that has missed miss_limit times, after which the
\* counter still stands at miss_limit
C17_Witness ==
    /\ call.op = "bdib" /\ ~call.had_file /\ ~Guarded
    /\ call.misses = miss_limit /\ call.nbar = 0
    /\ MissesIn(missing, <<call.tk, call.dt, "TRADE">>) = miss_limit

\* the hours of UTC at which the session of the day a bdib call asks for
\* starts and ends, each at the offset its time zone has at that local time
SessionStart ==
    utc_hour(MarketInfo(call.tk).tz, call.dt, MarketInfo(call.tk).start_time)

SessionEnd ==
    utc_hour(MarketInfo(call.tk).tz, call.dt, MarketInfo(call.tk).end_time)

LookupPath(c) ==
    _ref_file_(c[1], c[2], call.has_date, call.from_cache,
               IF call.op = "bdp" THEN "parq" ELSE "pkl")

ValuesOf(rows) == [i \in 1..Len(rows) |-> rows[i].value]

\* C19: a lookup leaves the cache file of every cell it found in the cache
\* as it was, and the rows it returns for such a cell are the content of the
\* cell's file when the call ends.
C19_HitsKeepTheirFiles ==
    (IsLookup /\ ~call.raised) =>
        \A c \in call.hits :
            /\ LookupPath(c) \notin call.changed
            /\ ValuesOf(group_of(call.result, c)) = ValuesOf(files[LookupPath(c)])

\* C20: when the bars of the key are cached and the batch guard does not
\* apply, bdib makes no terminal query, changes no cache file and no miss
\* counter, and returns the cached bars (nothing in batch mode), whatever the
\* miss counter of the key is.
C20_CachedBarsAreLocal ==
    (call.op = "bdib" /\ call.had_file /\ ~Guarded) =>
        /\ ~call.raised /\ call.nref = 0 /\ call.nbar = 0 /\ call.kept
        /\ call.batch => call.ret = "None"
        /\ ~call.batch => (call.ret = "data" /\ call.data = call.cached)

\* a futures key that has missed miss_limit times is read from its cached
\* bars
C20_Witness ==
    /\ call.op = "bdib" /\ call.had_file /\ ~Guarded /\ ~call.batch
    /\ MarketInfo(call.tk).is_fut
    /\ call.misses >= miss_limit
    /\ call.ret = "data" /\ call.data # <<>>

=============================================================================
